---- MODULE Spec2Model ----
(***************************************************************************)
(* The NVRTC wrapper of the XQA JIT (nvrtcWrapper.cpp): translation of a   *)
(* tllmXqaJitContext into compiler options, the single-stage and two-stage *)
(* compilation driver, the CUBIN accessors, destruction, and the           *)
(* process-wide last-error string.                                         *)
(*                                                                         *)
(* The two compiler libraries (NVRTC, nvPTXCompiler) are the environment.  *)
(* Their calls are modelled at the call sites of the wrapper:              *)
(*   - nvrtcCreateProgram, nvrtcCompileProgram and every nvPTXCompiler     *)
(*     call may report an error (out of memory, a compilation error, an    *)
(*     internal error): the outcome is an input of the action;             *)
(*   - the NVRTC queries and nvrtcDestroyProgram report an error exactly   *)
(*     when the program object they are given is not in the state they     *)
(*     need (not a program, or not compiled).                              *)
(* Both branches of every CHECK_* macro are in the operators below.        *)
(***************************************************************************)
EXTENDS Integers, Sequences, FiniteSets

VARIABLES
    gErrorString,   \* the process-wide last-error string
    handle,         \* the caller's tllmXqaJitProgram: "null" or "unit"
    context,        \* the tllmXqaJitContext the unit refers to
    unit,           \* the _tllmXqaJitProgram: cubin_data, use_stored_cubin
    nvrtc,          \* the nvrtcProgram object behind unit.program
    ptxCompiler,    \* the nvPTXCompilerHandle of the unit's compilation
    caller,         \* the caller's size variable and cubin buffer
    lastCall,       \* the last public call: what it was and what it returned
    fnIn,           \* input of the internal function under test
    fnOut           \* what the internal function returned

vars == <<gErrorString, handle, context, unit, nvrtc, ptxCompiler, caller, lastCall, fnIn, fnOut>>

-----------------------------------------------------------------------------
(* Bounds of the model *)

\* Largest binary (in bytes) a compiler hands back.
MaxCubinSize == 2

-----------------------------------------------------------------------------
(* Values of the configuration record *)

TLLM_XQA_JIT_SUCCESS == "Success"

TLLM_XQA_JIT_INVALID_INPUT == "InvalidInput"

TLLM_XQA_JIT_INTERNAL_ERROR == "InternalError"

\* Ways a call ends without returning a status.
Exception == "Exception"

Trap == "Trap"

StatusCodes == {TLLM_XQA_JIT_SUCCESS, TLLM_XQA_JIT_INVALID_INPUT, TLLM_XQA_JIT_INTERNAL_ERROR}

TLLM_XQA_JIT_HMMA == "HMMA"

TLLM_XQA_JIT_QGMMA == "QGMMA"

TLLM_XQA_JIT_MLA == "MLA"

KernelTypes == {TLLM_XQA_JIT_HMMA, TLLM_XQA_JIT_QGMMA, TLLM_XQA_JIT_MLA}

DATA_TYPE_FP16 == "FP16"

DATA_TYPE_BF16 == "BF16"

DATA_TYPE_E4M3 == "E4M3"

DATA_TYPE_INT8 == "INT8"

DATA_TYPE_FP32 == "FP32"

-----------------------------------------------------------------------------
(* Strings and 32-bit arithmetic *)

Digit(d) ==
    CASE d = 0 -> "0" [] d = 1 -> "1" [] d = 2 -> "2" [] d = 3 -> "3" [] d = 4 -> "4"
      [] d = 5 -> "5" [] d = 6 -> "6" [] d = 7 -> "7" [] d = 8 -> "8" [] d = 9 -> "9"

RECURSIVE Digits(_)
Digits(n) == IF n < 10 THEN Digit(n) ELSE Digits(n \div 10) \o Digit(n % 10)

\* std::to_string of an int or an unsigned int.
to_string(n) == IF n < 0 THEN "-" \o Digits(0 - n) ELSE Digits(n)

\* t occurs in s.
Contains(s, t) ==
    \E i \in 1..(Len(s) - Len(t) + 1) : SubSeq(s, i, i + Len(t) - 1) = t

StartsWith(s, t) == Len(s) >= Len(t) /\ SubSeq(s, 1, Len(t)) = t

Half == 256 * 256

\* The product of two unsigned 16-bit numbers, as <<high half, low half>>.
Mul16(x, y) ==
    LET p0 == x * (y % 256)
        p1 == x * (y \div 256)
        low == p0 + (p1 % 256) * 256
    IN  <<(low \div Half + p1 \div 256) % Half, low % Half>>

\* a * b in uint32_t, for a, b < 2^31: the product modulo 2^32 as
\* <<high half, low half>>.
MulU32(a, b) ==
    LET ah == a \div Half
        al == a % Half
        bh == b \div Half
        bl == b % Half
        ll == Mul16(al, bl)
        hl == Mul16(ah, bl)
        lh == Mul16(al, bh)
    IN  <<(ll[1] + hl[2] + lh[2]) % Half, ll[2]>>

\* unsigned %: with a zero divisor the operation is undefined; where it does
\* not trap (AArch64 udiv gives 0, so the remainder is the dividend).
URem(a, b) == IF b = 0 THEN a ELSE a % b

UDiv(a, b) == IF b = 0 THEN 0 ELSE a \div b

-----------------------------------------------------------------------------
(* The last-error string *)

setErrorStringAppending(g, errorString) == g \o errorString

\* setErrorString: the new value of gErrorString.
setErrorString(g, errorString) == errorString

\* What an internal function hands back: its status, gErrorString after it,
\* and its result.
Ret(status, g, result) == [status |-> status, g |-> g, result |-> result]

NVRTC_ERROR_MESSAGE == "NVRTC Internal Error"

NVPTX_ERROR_MESSAGE == "nvPTXCompiler Internal Error"

-----------------------------------------------------------------------------
(* Options *)

getMacroFlag(name, value) == "-D" \o name \o "=" \o value

getSMFlagNoSuffix(SM) == "-arch=sm_" \o to_string(SM)

getSMFlag(SM) ==
    LET smStr == IF SM = 90 \/ SM = 120 \/ SM = 121
                   THEN to_string(SM) \o "a" ELSE to_string(SM)
    IN  "-arch=sm_" \o smStr

getPTXSMFlag(SM) ==
    IF SM = 120 \/ SM = 121
      THEN "-arch=compute_89"
      ELSE LET smStr == IF SM = 90 THEN to_string(SM) \o "a" ELSE to_string(SM)
           IN  "-arch=compute_" \o smStr

\* The macros an std::unordered_map can hold, in the order the code sets them.
MacroNames ==
    << "SPEC_DEC", "INPUT_FP16", "DTYPE", "GENERATE_CUBIN", "NDEBUG", "HEAD_ELEMS",
       "BEAM_WIDTH", "CACHE_ELEM_ENUM", "TOKENS_PER_PAGE", "HEAD_GRP_SIZE", "M_TILESIZE",
       "USE_CUSTOM_BARRIER", "SLIDING_WINDOW", "LOW_PREC_OUTPUT", "USE_INPUT_KV",
       "ROPE_STYLE", "__FORCE_INCLUDE_CUDA_FP16_HPP_FROM_FP16_H__",
       "__FORCE_INCLUDE_CUDA_BF16_HPP_FROM_BF16_H__" >>

Reverse(s) == [i \in 1..Len(s) |-> s[Len(s) + 1 - i]]

\* The iteration order of the std::unordered_map is unspecified: the model
\* takes one of these orders for each call.
IterationOrders == {"forward", "backward"}

BoolMacro(b) == IF b THEN "1" ELSE "0"

HeadsMessage(num_q_heads, num_kv_heads) ==
    "num_q_heads (" \o to_string(num_q_heads) \o ") must be multiples of num_kv_heads ("
        \o to_string(num_kv_heads) \o ")."

DATA_TYPE_MESSAGE ==
    "data_type must be DATA_TYPE_FP16 or DATA_TYPE_BF16 for non-MLA kernels and DATA_TYPE_E4M3 for the MLA kernel"

KV_FP16_MESSAGE == "kv_cache_data_type must be DATA_TYPE_FP16 when data_type is DATA_TYPE_FP16"

KV_BF16_MESSAGE == "kv_cache_data_type must be DATA_TYPE_BF16 when data_type is not DATA_TYPE_FP16"

\* The m_tilesize lambda.
m_tilesize(ctx, num_q_heads_over_kv) ==
    IF ~ctx.multi_query_tokens
      THEN num_q_heads_over_kv
      ELSE IF ctx.kernel_type = TLLM_XQA_JIT_QGMMA
             THEN 64
             ELSE LET m == MulU32(ctx.q_seq_len, num_q_heads_over_kv)
                  IN  IF m[1] = 0 /\ m[2] < 16 THEN 16 ELSE 32

cacheElemEnumNoCheck(ctx) ==
    IF ctx.kv_cache_data_type = DATA_TYPE_INT8
      THEN [ok |-> TRUE, value |-> "1"]
      ELSE IF ctx.kv_cache_data_type = DATA_TYPE_E4M3
        THEN [ok |-> TRUE, value |-> "2"]
        ELSE [ok |-> TRUE, value |-> "0"]

\* Lines 174-201: the value of CACHE_ELEM_ENUM, or the message of the failure.
cacheElemEnum(ctx) ==
    IF ctx.kv_cache_data_type = DATA_TYPE_INT8
      THEN [ok |-> TRUE, value |-> "1"]
      ELSE IF ctx.kv_cache_data_type = DATA_TYPE_E4M3
        THEN [ok |-> TRUE, value |-> "2"]
        ELSE IF ctx.data_type = DATA_TYPE_FP16
               THEN IF ctx.kv_cache_data_type # DATA_TYPE_FP16
                      THEN [ok |-> FALSE, message |-> KV_FP16_MESSAGE]
                      ELSE [ok |-> TRUE, value |-> "0"]
               ELSE IF ctx.kv_cache_data_type # DATA_TYPE_BF16
                      THEN [ok |-> FALSE, message |-> KV_BF16_MESSAGE]
                      ELSE [ok |-> TRUE, value |-> "0"]

\* The keys of the map `macros` at line 220.
macroKeys(ctx) ==
    {MacroNames[i] : i \in 1..Len(MacroNames)}
        \ ((IF ctx.multi_query_tokens THEN {} ELSE {"SPEC_DEC"})
           \cup (IF ctx.data_type \in {DATA_TYPE_FP16, DATA_TYPE_BF16}
                   THEN {} ELSE {"INPUT_FP16", "DTYPE"}))

\* macros[name] at line 220.
macroValue(ctx, name, num_q_heads_over_kv, tile, cache) ==
    CASE name = "SPEC_DEC" -> "1"
      [] name = "INPUT_FP16" -> IF ctx.data_type = DATA_TYPE_FP16 THEN "1" ELSE "0"
      [] name = "DTYPE" -> IF ctx.data_type = DATA_TYPE_FP16 THEN "__half" ELSE "__nv_bfloat16"
      [] name = "GENERATE_CUBIN" -> "1"
      [] name = "NDEBUG" -> "1"
      [] name = "HEAD_ELEMS" -> to_string(ctx.head_size)
      [] name = "BEAM_WIDTH" -> to_string(ctx.beam_width)
      [] name = "CACHE_ELEM_ENUM" -> cache
      [] name = "TOKENS_PER_PAGE" ->
           IF ctx.paged_kv_cache THEN to_string(ctx.tokens_per_block) ELSE "0"
      [] name = "HEAD_GRP_SIZE" -> to_string(num_q_heads_over_kv)
      [] name = "M_TILESIZE" -> to_string(tile)
      [] name = "USE_CUSTOM_BARRIER" -> "1"
      [] name = "SLIDING_WINDOW" -> IF ctx.multi_query_tokens THEN "0" ELSE "1"
      [] name = "LOW_PREC_OUTPUT" -> BoolMacro(ctx.fp8_output)
      [] name = "USE_INPUT_KV" -> BoolMacro(ctx.use_input_kv)
      [] name = "ROPE_STYLE" -> to_string(ctx.rope_style)
      [] name = "__FORCE_INCLUDE_CUDA_FP16_HPP_FROM_FP16_H__" -> "1"
      [] name = "__FORCE_INCLUDE_CUDA_BF16_HPP_FROM_BF16_H__" -> "1"

\* Lines 220-223: one flag for each macro, in the iteration order of the map.
macroFlagList(ctx, num_q_heads_over_kv, tile, cache, order) ==
    LET names == IF order = "forward" THEN MacroNames ELSE Reverse(MacroNames)
        keys == macroKeys(ctx)
        InMap(n) == n \in keys
        held == SelectSeq(names, InMap)
    IN  [i \in 1..Len(held) |->
            getMacroFlag(held[i], macroValue(ctx, held[i], num_q_heads_over_kv, tile, cache))]

\* Lines 169-235, after the data type was accepted.
macrosAfterDataType(ctx, g, num_q_heads_over_kv, tile, order) ==
    LET cache == cacheElemEnum(ctx)
    IN  IF ~cache.ok
          THEN Ret(TLLM_XQA_JIT_INVALID_INPUT, setErrorString(g, cache.message), <<>>)
          ELSE Ret(TLLM_XQA_JIT_SUCCESS, g,
                   macroFlagList(ctx, num_q_heads_over_kv, tile, cache.value, order))

getMacroFlagsDataTypeFirst(ctx, g, ub, order) ==
    IF ctx.data_type \notin {DATA_TYPE_FP16, DATA_TYPE_BF16, DATA_TYPE_E4M3}
      THEN Ret(TLLM_XQA_JIT_INVALID_INPUT, setErrorString(g, DATA_TYPE_MESSAGE), <<>>)
      ELSE IF URem(ctx.num_q_heads, ctx.num_kv_heads) # 0
        THEN Ret(TLLM_XQA_JIT_INVALID_INPUT,
                 setErrorString(g, HeadsMessage(ctx.num_q_heads, ctx.num_kv_heads)), <<>>)
        ELSE macrosAfterDataType(ctx, g, UDiv(ctx.num_q_heads, ctx.num_kv_heads),
                 m_tilesize(ctx, UDiv(ctx.num_q_heads, ctx.num_kv_heads)), order)

\* getMacroFlags(context, result): the flags pushed onto an empty result.
\*   ub:    what the zero divisor of line 120 does in this build
\*   order: the iteration order of the map
getMacroFlags(ctx, g, ub, order) ==
    LET num_q_heads == ctx.num_q_heads
        num_kv_heads == ctx.num_kv_heads
    IN  IF num_kv_heads = 0 /\ ub = "trap"
          THEN Ret(Trap, g, <<>>)
          ELSE IF URem(num_q_heads, num_kv_heads) # 0
            THEN Ret(TLLM_XQA_JIT_INVALID_INPUT,
                     setErrorString(g, HeadsMessage(num_q_heads, num_kv_heads)), <<>>)
            ELSE
              LET num_q_heads_over_kv == UDiv(num_q_heads, num_kv_heads)
                  tile == m_tilesize(ctx, num_q_heads_over_kv)
              IN  IF ctx.data_type = DATA_TYPE_FP16 \/ ctx.data_type = DATA_TYPE_BF16
                    THEN macrosAfterDataType(ctx, g, num_q_heads_over_kv, tile, order)
                    ELSE IF ctx.data_type = DATA_TYPE_E4M3
                      THEN IF ctx.kernel_type = TLLM_XQA_JIT_MLA
                             THEN macrosAfterDataType(ctx, g, num_q_heads_over_kv, tile, order)
                             ELSE Ret(Exception, g, <<>>)
                      ELSE Ret(TLLM_XQA_JIT_INVALID_INPUT,
                               setErrorString(g, DATA_TYPE_MESSAGE), <<>>)

CommonFlags == << "-dw", "--use_fast_math", "-default-device" >>

\* getBuildOptions(prog, result): result holds the options pushed so far when
\* the macro step fails.
getBuildOptions(ctx, g, ub, order) ==
    LET arch == CommonFlags \o <<getSMFlag(ctx.sm)>>
        macros == getMacroFlags(ctx, g, ub, order)
    IN  IF macros.status # TLLM_XQA_JIT_SUCCESS
          THEN Ret(macros.status, macros.g, arch)
          ELSE Ret(TLLM_XQA_JIT_SUCCESS, macros.g, arch \o macros.result)

getBuildOptionsPTX(ctx, g, ub, order) ==
    LET arch == CommonFlags \o <<getPTXSMFlag(ctx.sm)>>
        macros == getMacroFlags(ctx, g, ub, order)
    IN  IF macros.status # TLLM_XQA_JIT_SUCCESS
          THEN Ret(macros.status, macros.g, arch)
          ELSE Ret(TLLM_XQA_JIT_SUCCESS, macros.g, arch \o macros.result)

-----------------------------------------------------------------------------
(* The first compiler (NVRTC): the program object behind unit.program *)

NoProgram == [state |-> "none", src |-> "none", options |-> <<>>, ptx |-> <<>>, cubin |-> <<>>]

Bytes(n, b) == [i \in 1..n |-> b]

\* nvrtcCreateProgram: on failure the handle in the unit is left as
\* `new _tllmXqaJitProgram` made it, which is not a program.
nvrtcCreateProgram(src_content, ok) ==
    IF ok THEN [NoProgram EXCEPT !.state = "created", !.src = src_content]
          ELSE [NoProgram EXCEPT !.state = "invalid"]

\* nvrtcCompileProgram: a real architecture (-arch=sm_*) yields PTX and a
\* cubin of n bytes, a virtual one (-arch=compute_*) PTX alone.
nvrtcCompileProgram(nv, options, ok, n) ==
    IF ~ok
      THEN [nv EXCEPT !.state = "failed", !.options = options]
      ELSE [state |-> "compiled", src |-> nv.src, options |-> options,
            ptx |-> Bytes(n, "ptx"),
            cubin |-> IF \E i \in 1..Len(options) : StartsWith(options[i], "-arch=sm_")
                        THEN Bytes(n, "nvrtc") ELSE <<>>]

\* nvrtcGetPTXSize, nvrtcGetPTX, nvrtcGetCUBINSize, nvrtcGetCUBIN succeed on a
\* compiled program.
nvrtcCompiled(nv) == nv.state = "compiled"

\* nvrtcDestroyProgram succeeds on a program.
nvrtcIsProgram(nv) == nv.state \in {"created", "compiled", "failed"}

-----------------------------------------------------------------------------
(* The compilation unit *)

NoUnit == [cubin_data |-> <<>>, use_stored_cubin |-> FALSE]

\* The calls of compileProgram and createProgram that can report an error of
\* their own; a call has at most one first failing library call.
Faults ==
    {"none", "nvrtcCreateProgram", "nvrtcCompileProgram", "nvPTXCompilerCreate",
     "nvPTXCompilerCompile", "nvPTXCompilerGetCompiledProgramSize",
     "nvPTXCompilerGetCompiledProgram", "nvPTXCompilerDestroy"}

\* What the environment decides for one call.
Envs ==
    [fault : Faults, ub : {"trap", "value"}, order : IterationOrders, size : 1..MaxCubinSize]

\* What createProgram and compileProgram hand back: the status, gErrorString,
\* the unit, its program, the second-stage compiler, the path taken and the
\* option vector of compileProgram at its return.
Done(status, g, u, nv, pc, path, options) ==
    [status |-> status, g |-> g, unit |-> u, nvrtc |-> nv, ptxCompiler |-> pc,
     path |-> path, options |-> options]

\* The failing branch of CHECK_NVRTC_ERROR and of CHECK_NVPTX_ERROR.
CHECK_NVRTC_ERROR(g) == setErrorString(g, NVRTC_ERROR_MESSAGE)

CHECK_NVPTX_ERROR(g) == setErrorString(g, NVPTX_ERROR_MESSAGE)

createProgram(ctx, env, g) ==
    LET src_content == IF ctx.kernel_type = TLLM_XQA_JIT_MLA
                         THEN "mla_sm120_cu_content"
                         ELSE IF ctx.kernel_type = TLLM_XQA_JIT_QGMMA
                                THEN "mha_sm90_cu_content" ELSE "mha_cu_content"
    IN  IF env.fault = "nvrtcCreateProgram"
          THEN Done(TLLM_XQA_JIT_INTERNAL_ERROR, CHECK_NVRTC_ERROR(g), NoUnit,
                    nvrtcCreateProgram(src_content, FALSE), "none", "none", <<>>)
          ELSE Done(TLLM_XQA_JIT_SUCCESS, g, NoUnit,
                    nvrtcCreateProgram(src_content, TRUE), "none", "none", <<>>)

needsTwoStageAnyKernel(ctx) == ctx.sm = 120 \/ ctx.sm = 121

needsTwoStageCompilation(ctx) ==
    (ctx.sm = 120 \/ ctx.sm = 121) /\ ctx.kernel_type = TLLM_XQA_JIT_HMMA

\* Lines 341-360: the PTX of the program, then the second stage.
secondStage(env, g, u, nv, options) ==
    IF ~nvrtcCompiled(nv)
      THEN Done(TLLM_XQA_JIT_INTERNAL_ERROR, CHECK_NVRTC_ERROR(g), u, nv,
                "none", "two", options)
    ELSE IF env.fault = "nvPTXCompilerCreate"
      THEN Done(TLLM_XQA_JIT_INTERNAL_ERROR, CHECK_NVPTX_ERROR(g), u, nv,
                "none", "two", options)
    ELSE IF env.fault = "nvPTXCompilerCompile"
      THEN Done(TLLM_XQA_JIT_INTERNAL_ERROR, CHECK_NVPTX_ERROR(g), u, nv,
                "live", "two", options)
    ELSE IF env.fault = "nvPTXCompilerGetCompiledProgramSize"
      THEN Done(TLLM_XQA_JIT_INTERNAL_ERROR, CHECK_NVPTX_ERROR(g), u, nv,
                "live", "two", options)
    ELSE IF env.fault = "nvPTXCompilerGetCompiledProgram"
      THEN Done(TLLM_XQA_JIT_INTERNAL_ERROR, CHECK_NVPTX_ERROR(g),
                [u EXCEPT !.cubin_data = Bytes(env.size, "zero")], nv,
                "live", "two", options)
    ELSE IF env.fault = "nvPTXCompilerDestroy"
      THEN Done(TLLM_XQA_JIT_INTERNAL_ERROR, CHECK_NVPTX_ERROR(g),
                [cubin_data |-> Bytes(env.size, "nvptx"), use_stored_cubin |-> TRUE],
                nv, "live", "two", options)
    ELSE Done(TLLM_XQA_JIT_SUCCESS, g,
              [cubin_data |-> Bytes(env.size, "nvptx"), use_stored_cubin |-> TRUE],
              nv, "destroyed", "two", options)

\* compileProgram(prog) on the unit u with the program nv.  A build without
\* NDEBUG also prints the program log before it returns; the status and the
\* message are those of the NDEBUG build on every path.
compileProgram(ctx, env, g, u, nv) ==
    IF needsTwoStageCompilation(ctx)
      THEN
        LET ptx_options == getBuildOptionsPTX(ctx, g, env.ub, env.order)
        IN  IF ptx_options.status # TLLM_XQA_JIT_SUCCESS
              THEN Done(ptx_options.status, ptx_options.g, u, nv, "none", "two",
                        ptx_options.result)
              ELSE
                LET err == env.fault # "nvrtcCompileProgram"
                    compiled == nvrtcCompileProgram(nv, ptx_options.result, err, env.size)
                IN  IF ~err
                      THEN Done(TLLM_XQA_JIT_INTERNAL_ERROR, CHECK_NVRTC_ERROR(g),
                                u, compiled, "none", "two", ptx_options.result)
                      ELSE secondStage(env, g, u, compiled, ptx_options.result)
      ELSE
        LET options == getBuildOptions(ctx, g, env.ub, env.order)
        IN  IF options.status # TLLM_XQA_JIT_SUCCESS
              THEN Done(options.status, options.g, u, nv, "none", "single",
                        options.result)
              ELSE
                LET err == env.fault # "nvrtcCompileProgram"
                    compiled == nvrtcCompileProgram(nv, options.result, err, env.size)
                IN  IF ~err
                      THEN Done(TLLM_XQA_JIT_INTERNAL_ERROR, CHECK_NVRTC_ERROR(g),
                                u, compiled, "none", "single", options.result)
                      ELSE Done(TLLM_XQA_JIT_SUCCESS, g, u, compiled, "none", "single",
                                options.result)

tllmXqaJitCreateAndCompileProgram(ctx, env, g) ==
    LET created == createProgram(ctx, env, g)
    IN  IF created.status # TLLM_XQA_JIT_SUCCESS
          THEN created
          ELSE compileProgram(ctx, env, created.g, created.unit, created.nvrtc)

\* What an accessor hands back: status, gErrorString, where it read from and
\* the bytes (for the size query: their number) it delivered.
Got(status, g, source, bytes) ==
    [status |-> status, g |-> g, source |-> source, bytes |-> bytes]

\* An nvrtcProgram that is not a program (line 282 leaves it indeterminate):
\* passing it to NVRTC is undefined; it reports an error or the process dies.
nvrtcHandleTraps(nv, ub) == nv.state = "invalid" /\ ub = "trap"

tllmXqaJitGetCUBINSizeFromNvrtc(u, nv, g, ub) ==
    IF nvrtcHandleTraps(nv, ub)
      THEN Got(Trap, g, "none", <<>>)
      ELSE IF ~nvrtcCompiled(nv)
        THEN Got(TLLM_XQA_JIT_INTERNAL_ERROR, CHECK_NVRTC_ERROR(g), "none", <<>>)
        ELSE Got(TLLM_XQA_JIT_SUCCESS, g, "nvrtc", nv.cubin)

tllmXqaJitGetCUBINSize(u, nv, g, ub) ==
    IF u.use_stored_cubin
      THEN Got(TLLM_XQA_JIT_SUCCESS, g, "stored", u.cubin_data)
      ELSE IF nvrtcHandleTraps(nv, ub)
        THEN Got(Trap, g, "none", <<>>)
        ELSE IF ~nvrtcCompiled(nv)
          THEN Got(TLLM_XQA_JIT_INTERNAL_ERROR, CHECK_NVRTC_ERROR(g), "none", <<>>)
          ELSE Got(TLLM_XQA_JIT_SUCCESS, g, "nvrtc", nv.cubin)

tllmXqaJitGetCUBIN(u, nv, g, ub) ==
    IF u.use_stored_cubin
      THEN Got(TLLM_XQA_JIT_SUCCESS, g, "stored", u.cubin_data)
      ELSE IF nvrtcHandleTraps(nv, ub)
        THEN Got(Trap, g, "none", <<>>)
        ELSE IF ~nvrtcCompiled(nv)
          THEN Got(TLLM_XQA_JIT_INTERNAL_ERROR, CHECK_NVRTC_ERROR(g), "none", <<>>)
          ELSE Got(TLLM_XQA_JIT_SUCCESS, g, "nvrtc", nv.cubin)

\* tllmXqaJitDestroyProgram: status, gErrorString and whether the unit was
\* deleted and the handle set to null.
tllmXqaJitDestroyProgram(nv, g, ub) ==
    IF nvrtcHandleTraps(nv, ub)
      THEN [status |-> Trap, g |-> g, deleted |-> FALSE]
      ELSE IF ~nvrtcIsProgram(nv)
        THEN [status |-> TLLM_XQA_JIT_INTERNAL_ERROR, g |-> CHECK_NVRTC_ERROR(g),
              deleted |-> FALSE]
        ELSE [status |-> TLLM_XQA_JIT_SUCCESS, g |-> g, deleted |-> TRUE]

tllmXqaJitGetLastErrorStringSize(g) == Len(g) + 1

\* tllmXqaJitGetLastErrorString(output): what output holds afterwards.
tllmXqaJitGetLastErrorString(g, output) == IF g = "" THEN output ELSE g

-----------------------------------------------------------------------------
(* Configurations *)

NoContext ==
    [head_size |-> 0, num_q_heads |-> 0, num_kv_heads |-> 0, beam_width |-> 0,
     data_type |-> DATA_TYPE_FP16, kv_cache_data_type |-> DATA_TYPE_FP16,
     paged_kv_cache |-> FALSE, tokens_per_block |-> 0, sm |-> 0,
     kernel_type |-> TLLM_XQA_JIT_HMMA, multi_query_tokens |-> FALSE, q_seq_len |-> 0,
     fp8_output |-> FALSE, use_input_kv |-> FALSE, rope_style |-> 0]

\* The configurations the caller of the public interface passes.
ProgramContexts ==
    [head_size : {128}, num_q_heads : {7, 10}, num_kv_heads : {0, 5}, beam_width : {1},
     data_type : {DATA_TYPE_FP16, DATA_TYPE_BF16, DATA_TYPE_E4M3, DATA_TYPE_FP32},
     kv_cache_data_type : {DATA_TYPE_FP16, DATA_TYPE_BF16},
     paged_kv_cache : {FALSE}, tokens_per_block : {32}, sm : {89, 90, 120, 121},
     kernel_type : KernelTypes, multi_query_tokens : {FALSE}, q_seq_len : {1},
     fp8_output : {FALSE}, use_input_kv : {FALSE}, rope_style : {0}]

\* The configurations the macro translation is applied to on its own.
MacroContexts ==
    [head_size : {128}, num_q_heads : {6, 8, 16, 65536}, num_kv_heads : {0, 1, 4},
     beam_width : {1},
     data_type : {DATA_TYPE_FP16, DATA_TYPE_BF16, DATA_TYPE_E4M3, DATA_TYPE_FP32},
     kv_cache_data_type : {DATA_TYPE_FP16, DATA_TYPE_BF16, DATA_TYPE_E4M3, DATA_TYPE_INT8},
     paged_kv_cache : {FALSE}, tokens_per_block : {32}, sm : {90},
     kernel_type : KernelTypes, multi_query_tokens : BOOLEAN,
     q_seq_len : {0, 1, 2, 15, 16, 17, 65536, 2147483647},
     fp8_output : {FALSE}, use_input_kv : {FALSE}, rope_style : {0}]

\* The configurations the option assemblers are applied to on their own.
OptionContexts ==
    [head_size : {128}, num_q_heads : {8}, num_kv_heads : {4}, beam_width : {1},
     data_type : {DATA_TYPE_FP16, DATA_TYPE_BF16},
     kv_cache_data_type : {DATA_TYPE_FP16, DATA_TYPE_INT8},
     paged_kv_cache : BOOLEAN, tokens_per_block : {32},
     sm : {0 - 1, 0, 80, 89, 90, 100, 120, 121},
     kernel_type : {TLLM_XQA_JIT_HMMA, TLLM_XQA_JIT_QGMMA}, multi_query_tokens : {FALSE},
     q_seq_len : {1}, fp8_output : {FALSE}, use_input_kv : {FALSE}, rope_style : {0}]

-----------------------------------------------------------------------------
(* The caller of the public interface *)

NoCall == [op |-> "none", status |-> "none", path |-> "none", source |-> "none",
           options |-> <<>>, text |-> "", size |-> 0, prevStatus |-> "none"]

NoCaller == [createStatus |-> "none", sizeKnown |-> FALSE, size |-> 0,
             sizeSource |-> "none", buffer |-> <<>>]

NoResult == [fn |-> "none"]

InitProgram ==
    /\ gErrorString = ""
    /\ handle = "null"
    /\ context = NoContext
    /\ unit = NoUnit
    /\ nvrtc = NoProgram
    /\ ptxCompiler = "none"
    /\ caller = NoCaller
    /\ lastCall = NoCall

Init ==
    /\ InitProgram
    /\ fnIn = NoContext
    /\ fnOut = NoResult

\* The process is running: no call has trapped.
Alive == lastCall.status # Trap

\* tllmXqaJitCreateAndCompileProgram(&handle, &ctx) on a handle that holds no
\* unit, with ctx one of Contexts.
CreateAndCompileOf(Contexts) ==
    /\ Alive
    /\ handle = "null"
    /\ \E ctx \in Contexts, env \in Envs :
         \E r \in {tllmXqaJitCreateAndCompileProgram(ctx, env, gErrorString)} :
             /\ gErrorString' = r.g
             /\ handle' = "unit"
             /\ context' = ctx
             /\ unit' = r.unit
             /\ nvrtc' = r.nvrtc
             /\ ptxCompiler' = r.ptxCompiler
             /\ caller' = [NoCaller EXCEPT !.createStatus = r.status]
             /\ lastCall' = [op |-> "create", status |-> r.status, path |-> r.path,
                             source |-> "none", options |-> r.options,
                             text |-> "", size |-> 0, prevStatus |-> lastCall.status]
    /\ UNCHANGED <<fnIn, fnOut>>

CreateAndCompile == CreateAndCompileOf(ProgramContexts)

\* tllmXqaJitGetCUBINSize(handle, &size).
GetCUBINSize ==
    /\ Alive
    /\ handle = "unit"
    /\ \E ub \in {"trap", "value"} :
         \E r \in {tllmXqaJitGetCUBINSize(unit, nvrtc, gErrorString, ub)} :
             /\ gErrorString' = r.g
             /\ caller' = IF r.status = TLLM_XQA_JIT_SUCCESS
                            THEN [caller EXCEPT !.sizeKnown = TRUE, !.size = Len(r.bytes),
                                                !.sizeSource = r.source, !.buffer = <<>>]
                            ELSE caller
             /\ lastCall' = [op |-> "size", status |-> r.status, path |-> "none",
                             source |-> r.source, options |-> <<>>,
                             text |-> "", size |-> 0, prevStatus |-> lastCall.status]
    /\ UNCHANGED <<handle, context, unit, nvrtc, ptxCompiler, fnIn, fnOut>>

\* tllmXqaJitGetCUBIN(handle, buffer) into a buffer of the size last queried.
GetCUBIN ==
    /\ Alive
    /\ handle = "unit"
    /\ caller.sizeKnown
    /\ \E ub \in {"trap", "value"} :
         \E r \in {tllmXqaJitGetCUBIN(unit, nvrtc, gErrorString, ub)} :
             /\ gErrorString' = r.g
             /\ caller' = IF r.status = TLLM_XQA_JIT_SUCCESS
                            THEN [caller EXCEPT !.buffer = r.bytes]
                            ELSE caller
             /\ lastCall' = [op |-> "cubin", status |-> r.status, path |-> "none",
                             source |-> r.source, options |-> <<>>,
                             text |-> "", size |-> 0, prevStatus |-> lastCall.status]
    /\ UNCHANGED <<handle, context, unit, nvrtc, ptxCompiler, fnIn, fnOut>>

\* tllmXqaJitDestroyProgram(&handle).
DestroyProgram ==
    /\ Alive
    /\ handle = "unit"
    /\ \E ub \in {"trap", "value"} :
         \E r \in {tllmXqaJitDestroyProgram(nvrtc, gErrorString, ub)} :
             /\ gErrorString' = r.g
             /\ handle' = IF r.deleted THEN "null" ELSE handle
             /\ unit' = IF r.deleted THEN NoUnit ELSE unit
             /\ nvrtc' = IF r.deleted THEN [NoProgram EXCEPT !.state = "destroyed"]
                                      ELSE nvrtc
             /\ context' = IF r.deleted THEN NoContext ELSE context
             /\ caller' = IF r.deleted THEN NoCaller ELSE caller
             /\ lastCall' = [op |-> "destroy", status |-> r.status, path |-> "none",
                             source |-> "none", options |-> <<>>,
                             text |-> "", size |-> 0, prevStatus |-> lastCall.status]
    /\ UNCHANGED <<ptxCompiler, fnIn, fnOut>>

\* tllmXqaJitGetLastErrorStringSize(), then tllmXqaJitGetLastErrorString(output)
\* into a buffer of that size, whose bytes before the call are the caller's.
GetLastErrorString ==
    /\ Alive
    /\ lastCall.op # "error"
    /\ \E output \in {"", "?"} :
         lastCall' = [op |-> "error", status |-> "void", path |-> "none",
                      source |-> "none", options |-> <<>>,
                      text |-> tllmXqaJitGetLastErrorString(gErrorString, output),
                      size |-> tllmXqaJitGetLastErrorStringSize(gErrorString),
                      prevStatus |-> lastCall.status]
    /\ UNCHANGED <<gErrorString, handle, context, unit, nvrtc, ptxCompiler, caller, fnIn, fnOut>>

Next ==
    CreateAndCompile \/ GetCUBINSize \/ GetCUBIN \/ DestroyProgram \/ GetLastErrorString

Spec == Init /\ [][Next]_vars

-----------------------------------------------------------------------------
(* The internal functions on their own *)

\* getMacroFlags(&fnIn, &result) with an empty result.
ApplyGetMacroFlags ==
    /\ \E ub \in {"trap", "value"}, order \in IterationOrders :
         \E r \in {getMacroFlags(fnIn, gErrorString, ub, order)} :
             /\ gErrorString' = r.g
             /\ fnOut' = [fn |-> "getMacroFlags", status |-> r.status, result |-> r.result]
    /\ UNCHANGED <<handle, context, unit, nvrtc, ptxCompiler, caller, lastCall, fnIn>>

\* getBuildOptions(prog, &result) with prog->context = &fnIn and an empty result.
ApplyGetBuildOptions ==
    /\ \E ub \in {"trap", "value"}, order \in IterationOrders :
         \E r \in {getBuildOptions(fnIn, gErrorString, ub, order)} :
             /\ gErrorString' = r.g
             /\ fnOut' = [fn |-> "getBuildOptions", status |-> r.status, result |-> r.result]
    /\ UNCHANGED <<handle, context, unit, nvrtc, ptxCompiler, caller, lastCall, fnIn>>

\* getBuildOptionsPTX(prog, &result) likewise.
ApplyGetBuildOptionsPTX ==
    /\ \E ub \in {"trap", "value"}, order \in IterationOrders :
         \E r \in {getBuildOptionsPTX(fnIn, gErrorString, ub, order)} :
             /\ gErrorString' = r.g
             /\ fnOut' = [fn |-> "getBuildOptionsPTX", status |-> r.status, result |-> r.result]
    /\ UNCHANGED <<handle, context, unit, nvrtc, ptxCompiler, caller, lastCall, fnIn>>

\* tllmXqaJitCreateAndCompileProgram(&handle, &fnIn).
CompileGiven == CreateAndCompileOf({fnIn})

InitMacro ==
    /\ InitProgram
    /\ fnIn \in MacroContexts
    /\ fnOut = NoResult

NextMacro == ApplyGetMacroFlags

SpecMacro == InitMacro /\ [][NextMacro]_vars

InitOptions ==
    /\ InitProgram
    /\ fnIn \in OptionContexts
    /\ fnOut = NoResult

NextOptions == ApplyGetBuildOptions \/ ApplyGetBuildOptionsPTX \/ CompileGiven

SpecOptions == InitOptions /\ [][NextOptions]_vars

-----------------------------------------------------------------------------
(* Properties *)

Failures == {TLLM_XQA_JIT_INVALID_INPUT, TLLM_XQA_JIT_INTERNAL_ERROR}

HasFlag(options, flag) == \E i \in 1..Len(options) : options[i] = flag

NoMacroFlag(options) == \A i \in 1..Len(options) : ~StartsWith(options[i], "-D")

\* C1: compileProgram takes the two-stage path exactly when the architecture
\* is 120 or 121 and the kernel type is HMMA; on the single-stage path the
\* program is compiled for the final architecture, no second-stage compiler
\* is created, and use_stored_cubin is false when the call returns.
C1_TwoStageIff ==
    (lastCall.op = "create" /\ lastCall.path # "none") =>
        /\ (lastCall.path = "two") <=>
               (context.sm \in {120, 121} /\ context.kernel_type = TLLM_XQA_JIT_HMMA)
        /\ (lastCall.path = "single") =>
               /\ ptxCompiler = "none"
               /\ ~unit.use_stored_cubin
               /\ unit.cubin_data = <<>>
               /\ nvrtc.state = "compiled" => HasFlag(nvrtc.options, getSMFlag(context.sm))
        /\ (lastCall.path = "two" /\ lastCall.status = TLLM_XQA_JIT_SUCCESS) =>
               /\ HasFlag(nvrtc.options, "-arch=compute_89")
               /\ ptxCompiler # "none"
               /\ unit.use_stored_cubin

C1_Witness ==
    /\ lastCall.op = "create"
    /\ lastCall.status = TLLM_XQA_JIT_SUCCESS
    /\ lastCall.path = "single"
    /\ context.sm = 120
    /\ context.kernel_type = TLLM_XQA_JIT_QGMMA

\* The messages a failing call of the last kind can have written.
MessagesOfLastCall ==
    IF lastCall.status = TLLM_XQA_JIT_INVALID_INPUT
      THEN {HeadsMessage(context.num_q_heads, context.num_kv_heads), DATA_TYPE_MESSAGE,
            KV_FP16_MESSAGE, KV_BF16_MESSAGE}
      ELSE IF lastCall.op = "create"
             THEN {NVRTC_ERROR_MESSAGE, NVPTX_ERROR_MESSAGE}
             ELSE {NVRTC_ERROR_MESSAGE}

\* C2: the last-error string is empty before any call; a call that returns
\* Success leaves it as it was; a call that returns InvalidInput or
\* InternalError leaves in it exactly that call's message, whatever it held.
C2_LastErrorOverwritten ==
    [][ /\ (lastCall.op = "none" => gErrorString = "")
        /\ (lastCall'.status = TLLM_XQA_JIT_SUCCESS => gErrorString' = gErrorString)
        /\ (lastCall'.status \in Failures => gErrorString' \in MessagesOfLastCall')
        /\ (lastCall'.op = "error" /\ lastCall.status \in Failures) =>
               /\ lastCall'.text \in MessagesOfLastCall
               /\ lastCall'.size = Len(lastCall'.text) + 1 ]_vars

C2_Witness ==
    /\ lastCall.op = "size"
    /\ lastCall.status = TLLM_XQA_JIT_INTERNAL_ERROR
    /\ lastCall.prevStatus = TLLM_XQA_JIT_INVALID_INPUT
    /\ gErrorString = NVRTC_ERROR_MESSAGE
    /\ tllmXqaJitGetLastErrorString(gErrorString, "") = NVRTC_ERROR_MESSAGE

IndivisibleHeads(ctx) ==
    ctx.num_kv_heads # 0 /\ ctx.num_q_heads % ctx.num_kv_heads # 0

MentionsBothHeadCounts(ctx) ==
    /\ gErrorString # ""
    /\ Contains(gErrorString, to_string(ctx.num_q_heads))
    /\ Contains(gErrorString, to_string(ctx.num_kv_heads))

C4_SizeThenCopy ==
    (caller.createStatus = TLLM_XQA_JIT_SUCCESS /\ handle = "unit") =>
        /\ (lastCall.op \in {"size", "cubin"}) =>
               /\ lastCall.status = TLLM_XQA_JIT_SUCCESS
               /\ lastCall.source = caller.sizeSource
               /\ (lastCall.source = "stored") <=> unit.use_stored_cubin
               /\ (lastCall.source = "nvrtc") <=> ~unit.use_stored_cubin
               /\ caller.size >= 1
               /\ caller.size =
                      Len(IF unit.use_stored_cubin THEN unit.cubin_data ELSE nvrtc.cubin)
        /\ (lastCall.op = "cubin") =>
               /\ Len(caller.buffer) = caller.size
               /\ caller.buffer =
                      (IF unit.use_stored_cubin THEN unit.cubin_data ELSE nvrtc.cubin)

C4_Witness ==
    /\ caller.createStatus = TLLM_XQA_JIT_SUCCESS
    /\ lastCall.op = "cubin"
    /\ lastCall.status = TLLM_XQA_JIT_SUCCESS
    /\ unit.use_stored_cubin
    /\ Len(caller.buffer) >= 2
    /\ caller.buffer[1] = "nvptx"

\* C5: tllmXqaJitCreateAndCompileProgram ends, for every configuration, by
\* returning Success, InvalidInput or InternalError.
C5_OnlyStatusCodes ==
    lastCall.op = "create" => lastCall.status \in StatusCodes

\* The M tile size as the claim states it, on the product of the numbers.
ClaimedTileSize(ctx) ==
    LET HEAD_GRP_SIZE == ctx.num_q_heads \div ctx.num_kv_heads
        below16 == \/ ctx.q_seq_len = 0
                   \/ HEAD_GRP_SIZE = 0
                   \/ /\ ctx.q_seq_len < 16
                      /\ HEAD_GRP_SIZE < 16
                      /\ ctx.q_seq_len * HEAD_GRP_SIZE < 16
    IN  IF ~ctx.multi_query_tokens THEN HEAD_GRP_SIZE
        ELSE IF ctx.kernel_type = TLLM_XQA_JIT_QGMMA THEN 64
        ELSE IF below16 THEN 16 ELSE 32

\* C6: M_TILESIZE is HEAD_GRP_SIZE without multi-query tokens, 64 with them
\* for the QGMMA kernel, and otherwise 16 when q_seq_len * HEAD_GRP_SIZE < 16
\* and 32 when it is not, for all values of the two factors.
C6_TileSize ==
    (fnOut.fn = "getMacroFlags" /\ fnOut.status = TLLM_XQA_JIT_SUCCESS
        /\ fnIn.num_kv_heads # 0) =>
        HasFlag(fnOut.result, "-DM_TILESIZE=" \o to_string(ClaimedTileSize(fnIn)))

PassesDataTypeCheck(ctx) ==
    /\ URem(ctx.num_q_heads, ctx.num_kv_heads) = 0
    /\ \/ ctx.data_type \in {DATA_TYPE_FP16, DATA_TYPE_BF16}
       \/ ctx.data_type = DATA_TYPE_E4M3 /\ ctx.kernel_type = TLLM_XQA_JIT_MLA

CacheEnumIs(value) ==
    /\ fnOut.status = TLLM_XQA_JIT_SUCCESS
    /\ HasFlag(fnOut.result, "-DCACHE_ELEM_ENUM=" \o value)
    /\ \A other \in {"0", "1", "2"} \ {value} :
           ~HasFlag(fnOut.result, "-DCACHE_ELEM_ENUM=" \o other)

CacheRejected ==
    /\ fnOut.status = TLLM_XQA_JIT_INVALID_INPUT
    /\ fnOut.result = <<>>

\* C7 as stated: CACHE_ELEM_ENUM is 1 for an INT8 cache, 2 for an E4M3 cache,
\* 0 when the cache type is the data type, and every other pair is rejected
\* with InvalidInput and no flags.
C7_AsStated ==
    (fnOut.fn = "getMacroFlags" /\ fnOut.status # Trap /\ PassesDataTypeCheck(fnIn)) =>
        IF fnIn.kv_cache_data_type = DATA_TYPE_INT8 THEN CacheEnumIs("1")
        ELSE IF fnIn.kv_cache_data_type = DATA_TYPE_E4M3 THEN CacheEnumIs("2")
        ELSE IF fnIn.kv_cache_data_type = fnIn.data_type THEN CacheEnumIs("0")
        ELSE CacheRejected

\* C7 as amended: CACHE_ELEM_ENUM is 1 for an INT8 cache, 2 for an E4M3 cache,
\* 0 when the cache is FP16 with FP16 data or BF16 with data that is not FP16
\* (BF16, or E4M3 of the MLA kernel), and every other pair is rejected with
\* InvalidInput and no flags.
C7_CacheElemEnum ==
    (fnOut.fn = "getMacroFlags" /\ fnOut.status # Trap /\ PassesDataTypeCheck(fnIn)) =>
        IF fnIn.kv_cache_data_type = DATA_TYPE_INT8 THEN CacheEnumIs("1")
        ELSE IF fnIn.kv_cache_data_type = DATA_TYPE_E4M3 THEN CacheEnumIs("2")
        ELSE IF \/ fnIn.data_type = DATA_TYPE_FP16
                   /\ fnIn.kv_cache_data_type = DATA_TYPE_FP16
                \/ fnIn.data_type # DATA_TYPE_FP16
                   /\ fnIn.kv_cache_data_type = DATA_TYPE_BF16
               THEN CacheEnumIs("0")
        ELSE CacheRejected

C7_Witness ==
    /\ fnOut.fn = "getMacroFlags"
    /\ fnIn.data_type = DATA_TYPE_E4M3
    /\ fnIn.kernel_type = TLLM_XQA_JIT_MLA
    /\ fnIn.kv_cache_data_type = DATA_TYPE_BF16
    /\ CacheEnumIs("0")

FinalArchFlag(N) ==
    "-arch=sm_" \o to_string(N) \o (IF N \in {90, 120, 121} THEN "a" ELSE "")

PTXArchFlag(N) ==
    IF N \in {120, 121} THEN "-arch=compute_89"
    ELSE IF N = 90 THEN "-arch=compute_90a"
    ELSE "-arch=compute_" \o to_string(N)

\* Three fixed flags, the architecture flag, then macro flags only.
OptionListShape(options, arch) ==
    /\ Len(options) > 4
    /\ SubSeq(options, 1, 4) = << "-dw", "--use_fast_math", "-default-device", arch >>
    /\ \A i \in 5..Len(options) : StartsWith(options[i], "-D")

\* C8: an option list is the three fixed flags, one architecture flag, then
\* the macro flags; the architecture flag is -arch=sm_<N>, with the suffix a
\* for 90, 120 and 121, in the final variant, and -arch=compute_89 for 120 and
\* 121, -arch=compute_90a for 90, -arch=compute_<N> otherwise in the PTX
\* variant; the list handed to the first compiler is the PTX variant on the
\* two-stage path and the final variant on the single-stage path.
C8_OptionList ==
    /\ (fnOut.fn = "getBuildOptions" /\ fnOut.status = TLLM_XQA_JIT_SUCCESS) =>
           OptionListShape(fnOut.result, FinalArchFlag(fnIn.sm))
    /\ (fnOut.fn = "getBuildOptionsPTX" /\ fnOut.status = TLLM_XQA_JIT_SUCCESS) =>
           OptionListShape(fnOut.result, PTXArchFlag(fnIn.sm))
    /\ (nvrtc.state \in {"compiled", "failed"}) =>
           OptionListShape(nvrtc.options,
               IF lastCall.path = "two" THEN PTXArchFlag(context.sm)
                                        ELSE FinalArchFlag(context.sm))

C8_Witness ==
    /\ fnOut.fn = "getBuildOptionsPTX"
    /\ fnIn.sm = 90
    /\ fnOut.result[4] = "-arch=compute_90a"
    /\ nvrtc.state = "compiled"
    /\ nvrtc.options[4] = "-arch=sm_90a"

\* C9: use_stored_cubin is set only on a unit whose creation returned Success.
C9_StoredOnlyOnSuccess ==
    unit.use_stored_cubin => caller.createStatus = TLLM_XQA_JIT_SUCCESS

\* C10: when tllmXqaJitCreateAndCompileProgram has returned, on success and
\* on every failure path, no second-stage compiler it created is left alive.
C10_NoCompilerOutlives ==
    lastCall.op = "create" => ptxCompiler # "live"

====
